---- MODULE Spec2Model ----
(***************************************************************************)
(* OpenQASMCompiler.                                                       *)
(*                                                                         *)
(* The circuit optimizer (src/src/circuit_optimizer.cpp) acting on a       *)
(* QuantumCircuit (src/unnamed/part_012): a circuit is built with addGate, *)
(* then the public optimizer entry points are called on it.  Each public   *)
(* entry point runs its passes in the order of the source; a pass is one   *)
(* action.  Spec and PairSpec are this machine under two sizes of circuit  *)
(* and call sequence.                                                      *)
(*                                                                         *)
(* The interpreter (src/src/interpreter): a QuantumState with its cache of *)
(* snapshots, used directly (CacheSpec) or through a QuantumDebugger that  *)
(* runs an interpreter QuantumCircuit on it (DebugSpec, and SessionSpec    *)
(* for shorter sessions).                                                  *)
(*                                                                         *)
(* Further components, each its own machine over its own variable: the     *)
(* three-qubit gates of QuantumState and QuantumSimulator (ThreeSpec), the *)
(* lowering visitor ASTToCircuitVisitor (LowerSpec), the register tables   *)
(* of the Interpreter (RegisterSpec), LocalBackend (BackendSpec) and two   *)
(* QuantumState objects given the same calls (TwinSpec).                   *)
(*                                                                         *)
(* Sequences are 1-based here and 0-based in the source.  Angles are       *)
(* integers counting units of pi/2.                                        *)
(***************************************************************************)
EXTENDS Integers, Sequences, FiniteSets

VARIABLES
    gates,      \* QuantumCircuit::gates_, the ordered gate list
    pc,         \* passes the running public operation still has to call
    op,         \* public operation running or last returned ("none" before any)
    prevOp,     \* public operation that returned before op was called
    input,      \* gates_ at the moment op was called
    pass,       \* last pass that ran inside op ("none" right after the call)
    before,     \* gates_ at the entry of that pass
    layers,     \* current_layer vectors built by the last reorderGates
    status,     \* "ok", or "crashed" once undefined behaviour ended the process
    calls,      \* number of public operations called so far
    circuit,    \* interpreter QuantumCircuit::gates
    state,      \* QuantumState::state, the live amplitudes
    state_cache,\* QuantumState::state_cache, label to saved amplitudes
    breakpoints,\* QuantumDebugger::breakpoints
    current_gate_index, \* QuantumDebugger::current_gate_index
    is_running, \* QuantumDebugger::is_running
    snapshot,   \* per label, the amplitudes at its last saveState and
                \* whether clearCache has not been called since
    thrown,     \* exception the last interpreter call ended with, or "none"
    last,       \* the last interpreter call and its argument
    pre,        \* what the last interpreter call found when it started
    ops,        \* number of interpreter calls so far
    three,      \* a three-qubit QuantumState and a three-qubit QuantumSimulator
    lower,      \* ASTToCircuitVisitor: the circuit under construction
    regs,       \* Interpreter: its register tables
    backend,    \* LocalBackend
    twin        \* a second QuantumState given the calls that state is given

optVars == <<gates, pc, op, prevOp, input, pass, before, layers, status, calls>>

intVars == <<circuit, state, state_cache, breakpoints, current_gate_index,
             is_running, snapshot, thrown, last, pre, ops>>

extVars == <<three, lower, regs, backend, twin>>

vars == <<gates, pc, op, prevOp, input, pass, before, layers, status, calls,
          circuit, state, state_cache, breakpoints, current_gate_index,
          is_running, snapshot, thrown, last, pre, ops,
          three, lower, regs, backend, twin>>

-----------------------------------------------------------------------------
(* Bounds of the model *)

NumQubits == 2
MaxGates == 3
MaxAngle == 2
MaxCalls == 2

(* Bounds of the smaller machine PairSpec *)
PairGates == 2
PairCalls == 1

(* Bounds of the interpreter machines *)
MaxCircuit == 2
MaxOps == 4
MaxBreakpoints == 2
SessionCircuit == 1
SessionOps == 3
MaxStateOps == 5
ThreeQubits == 3
MaxRegister == 2
MaxStatements == 3
LowerCircuit == 1
BackendCircuit == 2
BackendOps == 2
MaxShots == 2
TwinOps == 3

(* The configured maximum of cache entries, scaled to the labels *)
max_cache_size == 1

(* pi in units of pi/2 *)
Pi == 2
DefaultMaxQubits == 32

Qubits == 0 .. (NumQubits - 1)
Angles == 1 .. MaxAngle

-----------------------------------------------------------------------------
(* Gates as seen through QuantumGate::getType/getQubits/getParameters *)

Gate1(t, q) == [type |-> t, qubits |-> <<q>>, params |-> <<>>]
GateP(t, q, a) == [type |-> t, qubits |-> <<q>>, params |-> <<a>>]
Gate2(t, c, q) == [type |-> t, qubits |-> <<c, q>>, params |-> <<>>]

nullptr == [type |-> "nullptr", qubits |-> <<>>, params |-> <<>>]

(* The gates a caller adds in this model: a part of GateType that covers   *)
(* every table of the optimizer, a two-qubit gate and the measurement gate *)
PlainTypes == {"X", "Z", "H", "S", "S_DAG", "MEASURE"}

InputGates ==
    {Gate1(t, q) : t \in PlainTypes, q \in Qubits}
        \cup {GateP("RX", q, a) : q \in Qubits, a \in Angles}
        \cup {Gate2("CNOT", p[1], p[2]) :
                    p \in {r \in Qubits \X Qubits : r[1] # r[2]}}

QubitSet(g) == {g.qubits[k] : k \in 1 .. Len(g.qubits)}

-----------------------------------------------------------------------------
(* Static tables *)

cancellation_pairs ==
    [t \in {"X", "Y", "Z", "H", "S", "S_DAG", "T", "T_DAG"} |->
        CASE t = "S" -> "S_DAG"
          [] t = "S_DAG" -> "S"
          [] t = "T" -> "T_DAG"
          [] t = "T_DAG" -> "T"
          [] OTHER -> t]

merging_rules ==
    [t \in {"RX", "RY", "RZ", "P"} |-> {t}]

commutation_rules ==
    [t \in {"X", "Z", "H", "S", "T"} |->
        CASE t = "X" -> {"Z"}
          [] t = "Z" -> {"X"}
          [] t = "H" -> {"X", "Z"}
          [] OTHER -> {"X"}]

-----------------------------------------------------------------------------
(* Predicates on pairs of gates *)

canCancelGates(gate1, gate2) ==
    IF gate1.type # gate2.type THEN FALSE
    ELSE IF gate1.qubits # gate2.qubits THEN FALSE
    ELSE /\ gate1.type \in DOMAIN cancellation_pairs
         /\ cancellation_pairs[gate1.type] = gate2.type

canMergeGates(gate1, gate2) ==
    IF gate1.type # gate2.type THEN FALSE
    ELSE IF gate1.qubits # gate2.qubits THEN FALSE
    ELSE IF gate1.type \notin DOMAIN merging_rules THEN FALSE
    ELSE gate2.type \in merging_rules[gate1.type]

(* mergeGates with the second angle left out of the sum *)
mergeGates_KeepsFirstAngle(gate1, gate2) ==
    IF ~canMergeGates(gate1, gate2) THEN nullptr
    ELSE IF gate1.type \in {"RX", "RY", "RZ", "P"}
         THEN GateP(gate1.type, gate1.qubits[1], gate1.params[1])
         ELSE nullptr

mergeGates(gate1, gate2) ==
    IF ~canMergeGates(gate1, gate2) THEN nullptr
    ELSE IF gate1.type \in {"RX", "RY", "RZ", "P"}
         THEN GateP(gate1.type, gate1.qubits[1],
                    gate1.params[1] + gate2.params[1])
         ELSE nullptr

canCommuteGates(gate1, gate2) ==
    IF QubitSet(gate1) \cap QubitSet(gate2) # {} THEN FALSE
    ELSE IF gate1.type \notin DOMAIN commutation_rules THEN FALSE
    ELSE gate2.type \in commutation_rules[gate1.type]

-----------------------------------------------------------------------------
(* std::vector helpers *)

EraseAt(s, k) == SubSeq(s, 1, k - 1) \o SubSeq(s, k + 1, Len(s))

SwapAt(s, k) == [s EXCEPT ![k] = s[k + 1], ![k + 1] = s[k]]

Least(S) == CHOOSE j \in S : \A k \in S : j <= k

-----------------------------------------------------------------------------
(* The passes *)

(* Inner loop of applyCancellationRules: the first j > i whose gate      *)
(* canCancelGates accepts with gates[i]; 0 when the loop finds none      *)
FirstCancel(gs, i) ==
    LET J == {j \in (i + 1) .. Len(gs) : canCancelGates(gs[i], gs[j])}
    IN  IF J = {} THEN 0 ELSE Least(J)

(* Outer loop of applyCancellationRules from index i.  After a removal   *)
(* the source does --i and the loop's ++i: the same index is looked at   *)
(* again (for i = 0 the size_t wraps around and back).                   *)
RECURSIVE CancelFrom(_, _)
CancelFrom(gs, i) ==
    IF i > Len(gs) THEN gs
    ELSE LET j == FirstCancel(gs, i)
         IN  IF j = 0 THEN CancelFrom(gs, i + 1)
             ELSE CancelFrom(EraseAt(EraseAt(gs, j), i), i)

applyCancellationRules(gs) == CancelFrom(gs, 1)

(* Inner loop of applyMergingRules: the first j > i that canMergeGates   *)
(* accepts and for which mergeGates returns a gate                       *)
FirstMerge(gs, i) ==
    LET J == {j \in (i + 1) .. Len(gs) :
                /\ canMergeGates(gs[i], gs[j])
                /\ mergeGates(gs[i], gs[j]) # nullptr}
    IN  IF J = {} THEN 0 ELSE Least(J)

RECURSIVE MergeFrom(_, _)
MergeFrom(gs, i) ==
    IF i > Len(gs) THEN gs
    ELSE LET j == FirstMerge(gs, i)
         IN  IF j = 0 THEN MergeFrom(gs, i + 1)
             ELSE MergeFrom(
                    EraseAt([gs EXCEPT ![i] = mergeGates(gs[i], gs[j])], j), i)

applyMergingRules(gs) == MergeFrom(gs, 1)

(* The single sweep of applyCommutationRules over a non-empty list:      *)
(* i runs while i < gates.size() - 1                                     *)
RECURSIVE CommuteFrom(_, _)
CommuteFrom(gs, i) ==
    IF i >= Len(gs) THEN gs
    ELSE CommuteFrom(IF canCommuteGates(gs[i], gs[i + 1])
                     THEN SwapAt(gs, i) ELSE gs, i + 1)

applyCommutationRules(gs) == CommuteFrom(gs, 1)

(* reorderGates: qubit_gates[q] holds the indices of the gates on q *)
qubit_gates(gs) ==
    [q \in Qubits |-> {i \in 1 .. Len(gs) : q \in QubitSet(gs[i])}]

(* One execution of the for loop that fills current_layer; used[i] is    *)
(* set as soon as gate i is taken, inside the same sweep                 *)
RECURSIVE ScanLayer(_, _, _, _)
ScanLayer(gs, used, i, current_layer) ==
    IF i > Len(gs) THEN [used |-> used, layer |-> current_layer]
    ELSE LET can_add ==
                \A q \in QubitSet(gs[i]) :
                    \A gate_idx \in qubit_gates(gs)[q] :
                        ~(gate_idx < i /\ gate_idx \notin used)
         IN  IF i \notin used /\ can_add
             THEN ScanLayer(gs, used \cup {i}, i + 1, Append(current_layer, i))
             ELSE ScanLayer(gs, used, i + 1, current_layer)

(* The while loop of reorderGates: new_gates and the layers it was built from *)
RECURSIVE LayerLoop(_, _, _, _)
LayerLoop(gs, used, new_gates, ls) ==
    IF Len(new_gates) >= Len(gs) THEN [new_gates |-> new_gates, layers |-> ls]
    ELSE LET r == ScanLayer(gs, used, 1, <<>>)
         IN  LayerLoop(gs, r.used,
                       new_gates \o [k \in 1 .. Len(r.layer) |-> gs[r.layer[k]]],
                       Append(ls, r.layer))

(* reorderGates emitting the gates last to first *)
reorderGates_Reversed(gs) ==
    [new_gates |-> [k \in 1 .. Len(gs) |-> gs[Len(gs) + 1 - k]],
     layers |-> <<[k \in 1 .. Len(gs) |-> Len(gs) + 1 - k]>>]

reorderGates(gs) == LayerLoop(gs, {}, <<>>, <<>>)

(* remapQubits: the remapping is written into the vector that getQubits  *)
(* returned by value, a local of the loop body; the gates keep their     *)
(* qubit lists                                                           *)
remapQubits(gs) == gs

-----------------------------------------------------------------------------
(* Action of the basis-permutation gates on a basis index, qubit 0 the   *)
(* least significant bit: QuantumSimulator::applySingleQubitGate (X) and *)
(* QuantumSimulator::applyTwoQubitGate (CNOT)                            *)

Bit(i, q) == (i \div (2 ^ q)) % 2

FlipBit(i, q) == IF Bit(i, q) = 1 THEN i - 2 ^ q ELSE i + 2 ^ q

applyBasis(g, i) ==
    CASE g.type = "X" -> FlipBit(i, g.qubits[1])
      [] g.type = "CNOT" ->
            IF Bit(i, g.qubits[1]) = 1 THEN FlipBit(i, g.qubits[2]) ELSE i
      [] OTHER -> i

RECURSIVE simulate(_, _)
simulate(gs, i) ==
    IF gs = <<>> THEN i ELSE simulate(Tail(gs), applyBasis(Head(gs), i))

BasisStates == 0 .. (2 ^ NumQubits - 1)

-----------------------------------------------------------------------------
(* The interpreter: QuantumState (src/src/interpreter/quantum_state.cpp), *)
(* QuantumCircuit (src/src/interpreter/quantum_circuit.cpp) and           *)
(* QuantumDebugger (src/src/interpreter/quantum_debugger.cpp).            *)
(*                                                                         *)
(* A state vector is [amp, k, nan]: entry i has the value                 *)
(* amp[i] / sqrt(2)^k, which is exact for the gates modelled here (H, X,  *)
(* CNOT, MEASURE: every entry stays real); nan says that every entry is   *)
(* NaN.  Rounding of doubles is not modelled.                              *)

Labels == {"a", "b"}

Amplitudes(a, k) == [amp |-> a, k |-> k, nan |-> FALSE]

NaNs == [amp |-> [i \in BasisStates |-> 0], k |-> 0, nan |-> TRUE]

(* One vector has one representation: halve the entries while all are even *)
RECURSIVE Canon(_)
Canon(v) ==
    IF v.k >= 2 /\ \A i \in BasisStates : v.amp[i] % 2 = 0
    THEN Canon(Amplitudes([i \in BasisStates |-> v.amp[i] \div 2], v.k - 2))
    ELSE v

(* QuantumState::QuantumState: |0...0>, an empty cache *)
QuantumState == Amplitudes([i \in BasisStates |-> IF i = 0 THEN 1 ELSE 0], 0)

EmptyCache == [n \in {} |-> QuantumState]

(* applySingleQubitGate with the matrix m / sqrt(2)^dk, m row-major *)
applySingleQubitGate(v, qubit, m, dk) ==
    IF v.nan THEN v
    ELSE Canon(Amplitudes(
            [i \in BasisStates |->
                IF Bit(i, qubit) = 0
                THEN m[1] * v.amp[i] + m[2] * v.amp[i + 2 ^ qubit]
                ELSE m[3] * v.amp[i - 2 ^ qubit] + m[4] * v.amp[i]],
            v.k + dk))

(* applyTwoQubitGate: the two qubits are put in increasing order first,   *)
(* mask1 belongs to the lower one and mask2 to the higher one; row and    *)
(* column 0..3 of m stand for idx00, idx01, idx10, idx11                  *)
applyTwoQubitGate(v, qubit1, qubit2, m) ==
    IF v.nan THEN v
    ELSE LET lo == IF qubit1 > qubit2 THEN qubit2 ELSE qubit1
             hi == IF qubit1 > qubit2 THEN qubit1 ELSE qubit2
             base(i) == i - Bit(i, lo) * 2 ^ lo - Bit(i, hi) * 2 ^ hi
             row(i) == Bit(i, lo) + 2 * Bit(i, hi)
         IN  Amplitudes(
                [i \in BasisStates |->
                    m[4 * row(i) + 1] * v.amp[base(i)]
                    + m[4 * row(i) + 2] * v.amp[base(i) + 2 ^ lo]
                    + m[4 * row(i) + 3] * v.amp[base(i) + 2 ^ hi]
                    + m[4 * row(i) + 4] * v.amp[base(i) + 2 ^ lo + 2 ^ hi]],
                v.k)

applyHadamard(v, qubit) == applySingleQubitGate(v, qubit, <<1, 1, 1, -1>>, 1)

applyX(v, qubit) == applySingleQubitGate(v, qubit, <<0, 1, 1, 0>>, 0)

applyCNOT(v, control, target) ==
    applyTwoQubitGate(v, control, target,
        <<1, 0, 0, 0,
          0, 1, 0, 0,
          0, 0, 0, 1,
          0, 0, 1, 0>>)

Sign(n) == IF n > 0 THEN 1 ELSE IF n < 0 THEN -1 ELSE 0

(* normalize: every entry divided by the norm.  The vectors that reach    *)
(* it here have all their non-zero entries of one magnitude (SameSize),   *)
(* so the quotient is sign / sqrt(number of non-zero entries); the norm   *)
(* of the zero vector is 0 and 0.0 / 0.0 is NaN                           *)
normalize(v) ==
    LET nz == {i \in BasisStates : v.amp[i] # 0}
    IN  IF v.nan \/ nz = {} THEN NaNs
        ELSE Amplitudes([i \in BasisStates |-> Sign(v.amp[i])],
                        CHOOSE j \in 0 .. NumQubits : 2 ^ j = Cardinality(nz))

SameSize(v) ==
    \A i, j \in BasisStates :
        (v.amp[i] # 0 /\ v.amp[j] # 0) => v.amp[i] * v.amp[i] = v.amp[j] * v.amp[j]

RECURSIVE SumSquares(_, _)
SumSquares(v, I) ==
    IF I = {} THEN 0
    ELSE LET i == CHOOSE x \in I : TRUE
         IN  v.amp[i] * v.amp[i] + SumSquares(v, I \ {i})

(* What normalize relies on, for the live amplitudes: one magnitude and  *)
(* norm 1                                                                *)
ExactAmplitudes ==
    state.nan \/ (SameSize(state) /\ SumSquares(state, BasisStates) = 2 ^ state.k)

(* The values result can take in measure: dis(gen) lies in [0, 1), so     *)
(* dis(gen) > prob0 is false for the draw 0.0 whatever prob0 is, and true *)
(* for some draw exactly when prob0 < 1; every comparison with NaN is     *)
(* false                                                                  *)
measureResults(v, qubit) ==
    IF v.nan THEN {FALSE}
    ELSE LET prob0 == SumSquares(v, {i \in BasisStates : Bit(i, qubit) = 0})
         IN  {FALSE} \cup (IF prob0 < 2 ^ v.k THEN {TRUE} ELSE {})

(* measure: the state after the collapse for the drawn result *)
collapse(v, qubit, result) ==
    normalize([v EXCEPT !.amp =
        [i \in BasisStates |->
            IF (Bit(i, qubit) = 0) = result THEN 0 ELSE v.amp[i]]])

measure(v, qubit) == {collapse(v, qubit, r) : r \in measureResults(v, qubit)}

(* Gates of the interpreter's circuit: QuantumCircuit::Gate *)
Gate(t, qs) == [type |-> t, qubits |-> qs, angle |-> 0]

CircuitGates ==
    {Gate(t, <<q>>) : t \in {"H", "X", "MEASURE"}, q \in Qubits}
        \cup {Gate("CNOT", p) : p \in {r \in Qubits \X Qubits : r[1] # r[2]}}

(* One case of the switch in QuantumCircuit::execute: the states the gate *)
(* can leave, qubits[0] being qubits[1] here                              *)
applyGate(v, g) ==
    CASE g.type = "H" -> {applyHadamard(v, g.qubits[1])}
      [] g.type = "X" -> {applyX(v, g.qubits[1])}
      [] g.type = "CNOT" -> {applyCNOT(v, g.qubits[1], g.qubits[2])}
      [] g.type = "MEASURE" -> measure(v, g.qubits[1])

(* QuantumCircuit::execute: every gate of the circuit, in order *)
RECURSIVE execute(_, _)
execute(gs, v) ==
    IF gs = <<>> THEN {v}
    ELSE UNION {execute(Tail(gs), w) : w \in applyGate(v, Head(gs))}

(* Breakpoints: the captures of the condition lambda *)
GateBreakpoint(gate_index) == [type |-> "GATE", gate_index |-> gate_index]

(* QuantumDebugger::checkBreakpoints: the conditions are called in the    *)
(* order of the vector until one is true                                  *)
RECURSIVE checkBreakpoints(_, _)
checkBreakpoints(bps, index) ==
    IF bps = <<>> THEN FALSE
    ELSE IF index = Head(bps).gate_index THEN TRUE
    ELSE checkBreakpoints(Tail(bps), index)

(* QuantumDebugger::removeBreakpoint: an index outside the vector is     *)
(* skipped without a word                                                *)
removeBreakpoint(bps, index) ==
    IF index >= 0 /\ index < Len(bps) THEN EraseAt(bps, index + 1) ELSE bps

(* QuantumDebugger::step on (state, current_gate_index): the whole        *)
(* circuit is executed on the state, then the index moves by one          *)
step(gs, c) ==
    IF c.index < Len(gs)
    THEN {[c EXCEPT !.state = w, !.index = c.index + 1] : w \in execute(gs, c.state)}
    ELSE {c}

(* QuantumDebugger::continueExecution: the while loop from is_running set *)
RECURSIVE continueLoop(_, _, _)
continueLoop(gs, bps, c) ==
    IF c.is_running /\ c.index < Len(gs)
    THEN UNION {continueLoop(gs, bps,
                    [d EXCEPT !.is_running = ~checkBreakpoints(bps, d.index)]) :
                  d \in step(gs, c)}
    ELSE {c}

resetState_KeepsAmplitudes(v) == v

(* QuantumDebugger::reset: the state object is assigned a new QuantumState, *)
(* amplitudes and cache alike                                             *)
resetState(v) == QuantumState

resetCache(cache) == EmptyCache

(* QuantumState::saveState: state_cache[name] = state *)
saveStateCache(cache, name, v) ==
    [n \in DOMAIN cache \cup {name} |-> IF n = name THEN v ELSE cache[n]]

loadStateResult_KeepsLive(cache, name, v) ==
    IF name \in DOMAIN cache
    THEN [state |-> v, thrown |-> "none"]
    ELSE [state |-> v, thrown |-> "State not found in cache"]

loadStateResult_Silent(cache, name, v) ==
    IF name \in DOMAIN cache
    THEN [state |-> cache[name], thrown |-> "none"]
    ELSE [state |-> QuantumState, thrown |-> "none"]

(* QuantumState::loadState: the live amplitudes and the exception thrown *)
loadStateResult(cache, name, v) ==
    IF name \in DOMAIN cache
    THEN [state |-> cache[name], thrown |-> "none"]
    ELSE [state |-> v, thrown |-> "State not found in cache"]

-----------------------------------------------------------------------------
(* The three-qubit gates on a register of ThreeQubits qubits: the          *)
(* interpreter's QuantumState::applyToffoli / applyFredkin and the         *)
(* simulator's QuantumSimulator::applyThreeQubitGate.  Only X and these    *)
(* gates are applied, so the amplitudes are integers                       *)

ThreeBasis == 0 .. (2 ^ ThreeQubits - 1)

ThreeKet(i) == [j \in ThreeBasis |-> IF j = i THEN 1 ELSE 0]

(* The ordered triples of distinct qubits *)
Triples ==
    {t \in (0 .. (ThreeQubits - 1)) \X (0 .. (ThreeQubits - 1)) \X (0 .. (ThreeQubits - 1)) :
        t[1] # t[2] /\ t[1] # t[3] /\ t[2] # t[3]}

(* X on one qubit, the same exchange in both engines *)
threeX(v, qubit) == [i \in ThreeBasis |-> v[FlipBit(i, qubit)]]

sortQubits(q1, q2, q3) ==
    LET a == IF q1 > q2 THEN <<q2, q1, q3>> ELSE <<q1, q2, q3>>
        b == IF a[2] > a[3] THEN <<a[1], a[3], a[2]>> ELSE a
    IN  IF b[1] > b[2] THEN <<b[2], b[1], b[3]>> ELSE b

(* QuantumState::applyThreeQubitGate with the row-major 8x8 matrix m: only *)
(* the entries idx000 and idx001 of each block are assigned                *)
applyThreeQubitGate(v, qubit1, qubit2, qubit3, m) ==
    LET s == sortQubits(qubit1, qubit2, qubit3)
        row(i) == Bit(i, s[1]) + 2 * Bit(i, s[2]) + 4 * Bit(i, s[3])
        base(i) == i - Bit(i, s[1]) * 2 ^ s[1] - Bit(i, s[2]) * 2 ^ s[2]
                     - Bit(i, s[3]) * 2 ^ s[3]
        at(i, c) == base(i) + (c % 2) * 2 ^ s[1] + ((c \div 2) % 2) * 2 ^ s[2]
                      + (c \div 4) * 2 ^ s[3]
        product(i, r) ==
            m[8 * r + 1] * v[at(i, 0)] + m[8 * r + 2] * v[at(i, 1)]
            + m[8 * r + 3] * v[at(i, 2)] + m[8 * r + 4] * v[at(i, 3)]
            + m[8 * r + 5] * v[at(i, 4)] + m[8 * r + 6] * v[at(i, 5)]
            + m[8 * r + 7] * v[at(i, 6)] + m[8 * r + 8] * v[at(i, 7)]
    IN  [i \in ThreeBasis |->
            IF row(i) = 0 THEN product(i, 0)
            ELSE IF row(i) = 1 THEN product(i, 1)
            ELSE v[i]]

(* toffoli_matrix: 1 on the diagonal except at row 7, and at (7,6), (6,7) *)
toffoli_matrix ==
    [n \in 1 .. 64 |->
        LET r == (n - 1) \div 8
            c == (n - 1) % 8
        IN  IF (r = c /\ r # 7) \/ (r = 7 /\ c = 6) \/ (r = 6 /\ c = 7)
            THEN 1 ELSE 0]

(* fredkin_matrix: the diagonal except rows 6 and 7, then (6,6) and (7,7) *)
fredkin_matrix ==
    [n \in 1 .. 64 |->
        LET r == (n - 1) \div 8
            c == (n - 1) % 8
        IN  IF r = c THEN 1 ELSE 0]

applyToffoli(v, control1, control2, target) ==
    applyThreeQubitGate(v, control1, control2, target, toffoli_matrix)

applyFredkin(v, control, target1, target2) ==
    applyThreeQubitGate(v, control, target1, target2, fredkin_matrix)

(* QuantumSimulator::applyThreeQubitGate, CCX and CSWAP alike: for every i *)
(* with both bits qubits[0] and qubits[1] set, the entries i and           *)
(* i ^ target_mask are exchanged                                           *)
simulateThreeQubitGate(v, qubits) ==
    [i \in ThreeBasis |->
        IF Bit(i, qubits[1]) = 1 /\ Bit(i, qubits[2]) = 1
        THEN v[FlipBit(i, qubits[3])]
        ELSE v[i]]

(* Both engines constructed: |000> *)
ThreeQubitEngines ==
    [state |-> ThreeKet(0), state_vector_ |-> ThreeKet(0),
     last |-> [engine |-> "none", name |-> "none", qubits |-> <<>>],
     pre |-> ThreeKet(0)]

-----------------------------------------------------------------------------
(* Lowering: ASTToCircuitVisitor (src/include/OpenQASMCompiler/            *)
(* ast_visitor.hpp) building a compiler QuantumCircuit (part_012), one     *)
(* statement of the program at a time                                      *)

(* Qubit and classical bit indices a statement can name: one more than a   *)
(* single register of the largest size holds                               *)
LowerIndices == 0 .. MaxRegister

LowerGates ==
    {Gate1("X", q) : q \in LowerIndices}
        \cup {Gate2("CNOT", p[1], p[2]) :
                    p \in {r \in LowerIndices \X LowerIndices : r[1] # r[2]}}

Statements ==
    {[kind |-> "qreg", size |-> n] : n \in 1 .. MaxRegister}
        \cup {[kind |-> "creg", size |-> n] : n \in 1 .. MaxRegister}
        \cup {[kind |-> "gate", gate |-> g] : g \in LowerGates}
        \cup {[kind |-> "measure", qubit |-> q, classical_bit |-> c] :
                    q \in LowerIndices, c \in LowerIndices}

(* QuantumCircuit::QuantumCircuit(num_qubits, num_classical_bits) *)
NewCircuit(num_qubits, num_classical_bits) ==
    [num_qubits |-> num_qubits, num_classical_bits |-> num_classical_bits,
     gates |-> <<>>, measurements |-> <<>>]

(* QuantumCircuit::addGate of the compiler: the circuit it leaves and the  *)
(* exception it throws                                                     *)
addGateResult(c, g) ==
    IF \E q \in QubitSet(g) : q >= c.num_qubits
    THEN [circuit |-> c, thrown |-> "Qubit index out of range"]
    ELSE [circuit |-> [c EXCEPT !.gates = Append(@, g)], thrown |-> "none"]

addMeasurementResult(c, qubit, classical_bit) ==
    IF qubit >= c.num_qubits
    THEN [circuit |-> c, thrown |-> "Qubit index out of range"]
    ELSE IF classical_bit >= c.num_classical_bits
    THEN [circuit |-> c, thrown |-> "Classical bit index out of range"]
    ELSE [circuit |-> [c EXCEPT !.measurements = Append(@, <<qubit, classical_bit>>)],
          thrown |-> "none"]

(* visit(QubitDeclarationNode), visit(ClassicalBitDeclarationNode): a      *)
(* larger declaration replaces circuit_ by a new circuit                   *)
visitQubitDeclaration(c, n) ==
    IF n > c.num_qubits THEN NewCircuit(n, c.num_classical_bits) ELSE c

visitClassicalBitDeclaration(c, n) ==
    IF n > c.num_classical_bits THEN NewCircuit(c.num_qubits, n) ELSE c

(* ASTToCircuitVisitor with its default arguments, nothing visited yet *)
ASTToCircuitVisitor ==
    [circuit_ |-> NewCircuit(0, 0), program |-> <<>>, thrown |-> "none",
     pre |-> NewCircuit(0, 0)]

(* Gates given to the interpreter's QuantumCircuit::addGate, qubit         *)
(* NumQubits being one past the last qubit of the circuit                  *)
UncheckedGates == {Gate("X", <<q>>) : q \in 0 .. NumQubits}

-----------------------------------------------------------------------------
(* The register tables of the Interpreter (part_014): qregisters and       *)
(* cregisters, each a map from a register name to its bits                 *)

RegisterNames == {"q", "r"}

NoRegisters == [n \in {} |-> <<>>]

(* std::vector<bool>(size, false) stored under the name *)
declare(registers, name, size) ==
    [n \in DOMAIN registers \cup {name} |->
        IF n = name THEN [k \in 1 .. size |-> FALSE] ELSE registers[n]]

(* Interpreter::visitQRegDecl: the two tables it leaves and what it throws *)
visitQRegDecl(r, name, size) ==
    IF name \in DOMAIN r.qregisters
    THEN [qregisters |-> r.qregisters, cregisters |-> r.cregisters,
          thrown |-> "Quantum register already declared"]
    ELSE [qregisters |-> declare(r.qregisters, name, size),
          cregisters |-> r.cregisters, thrown |-> "none"]

(* Interpreter::visitCRegDecl *)
visitCRegDecl(r, name, size) ==
    IF name \in DOMAIN r.cregisters
    THEN [qregisters |-> r.qregisters, cregisters |-> r.cregisters,
          thrown |-> "Classical register already declared"]
    ELSE [qregisters |-> r.qregisters,
          cregisters |-> declare(r.cregisters, name, size), thrown |-> "none"]

(* An Interpreter that has visited nothing *)
Interpreter ==
    [qregisters |-> NoRegisters, cregisters |-> NoRegisters, thrown |-> "none",
     last |-> [kind |-> "none", name |-> "none", size |-> 0],
     pre |-> [qregisters |-> NoRegisters, cregisters |-> NoRegisters]]

-----------------------------------------------------------------------------
(* LocalBackend (part_005) running circuits of the interpreter, all of     *)
(* NumQubits qubits                                                        *)

(* LocalBackend::LocalBackend: max_qubits(32); results and returns are the *)
(* vector the last measure returned and the set of vectors it could have   *)
(* returned, allocated says whether that call constructed a QuantumState   *)
LocalBackend ==
    [max_qubits |-> DefaultMaxQubits, last_error |-> "", shots |-> 0,
     results |-> <<>>, returns |-> {<<>>}, allocated |-> FALSE]

(* The inner loop of measure: qubits qubit .. NumQubits - 1 measured in    *)
(* order on v, result being the bits set so far; every way it can end      *)
RECURSIVE measureQubits(_, _, _)
measureQubits(v, qubit, result) ==
    IF qubit >= NumQubits THEN {[state |-> v, result |-> result]}
    ELSE UNION {measureQubits(collapse(v, qubit, r), qubit + 1,
                              IF r THEN result + 2 ^ qubit ELSE result) :
                    r \in measureResults(v, qubit)}

(* The outer loop of measure: shots shots, one after the other on the      *)
(* same QuantumState v; the results vectors it can build                   *)
RECURSIVE measureShots(_, _)
measureShots(v, shots) ==
    IF shots = 0 THEN {<<>>}
    ELSE UNION {{<<o.result>> \o rest : rest \in measureShots(o.state, shots - 1)} :
                    o \in measureQubits(v, 0, 0)}

(* LocalBackend::measure past its check of shots *)
backendMeasure(gs, shots) ==
    UNION {measureShots(v, shots) : v \in execute(gs, QuantumState)}

-----------------------------------------------------------------------------
(* Two QuantumState objects constructed alike and given the same calls.    *)
(* Neither takes a seed: each measure seeds a new std::mt19937 from        *)
(* std::random_device, so the two draw independently                       *)

(* The second object, and what the last measure returned in the first and  *)
(* in the second ("none" before any measure)                               *)
TwinState == [state |-> QuantumState, first |-> "none", second |-> "none"]

-----------------------------------------------------------------------------
(* The machine *)

Init ==
    /\ gates = <<>>
    /\ pc = <<>>
    /\ op = "none"
    /\ prevOp = "none"
    /\ input = <<>>
    /\ pass = "none"
    /\ before = <<>>
    /\ layers = <<>>
    /\ status = "ok"
    /\ calls = 0
    /\ circuit = <<>>
    /\ state = QuantumState
    /\ state_cache = EmptyCache
    /\ breakpoints = <<>>
    /\ current_gate_index = 0
    /\ is_running = FALSE
    /\ snapshot = [n \in {} |-> [state |-> QuantumState, live |-> TRUE]]
    /\ thrown = "none"
    /\ last = [name |-> "none", arg |-> 0]
    /\ pre = [state |-> QuantumState, state_cache |-> EmptyCache,
              breakpoints |-> <<>>, current_gate_index |-> 0]
    /\ ops = 0
    /\ three = ThreeQubitEngines
    /\ lower = ASTToCircuitVisitor
    /\ regs = Interpreter
    /\ backend = LocalBackend
    /\ twin = TwinState

(* QuantumCircuit::addGate: the circuit is built before it is optimized *)
addGate(g, maxGates) ==
    /\ status = "ok" /\ pc = <<>> /\ op = "none"
    /\ Len(gates) < maxGates
    /\ \A q \in QubitSet(g) : q < NumQubits
    /\ gates' = Append(gates, g)
    /\ UNCHANGED <<pc, op, prevOp, input, pass, before, layers, status, calls>>
    /\ UNCHANGED <<intVars, extVars>>

(* Entry of a public operation: ps are the passes it calls, in order *)
Call(name, ps, maxCalls) ==
    /\ status = "ok" /\ pc = <<>>
    /\ calls < maxCalls
    /\ op' = name
    /\ prevOp' = op
    /\ input' = gates
    /\ pc' = ps
    /\ pass' = "none"
    /\ before' = gates
    /\ layers' = <<>>
    /\ calls' = calls + 1
    /\ UNCHANGED <<gates, status>>
    /\ UNCHANGED <<intVars, extVars>>

optimize(maxCalls) ==
    Call("optimize", <<"cancel", "merge", "commute", "depth", "remap">>, maxCalls)
optimizeGateCount(maxCalls) ==
    Call("optimizeGateCount", <<"cancel", "merge">>, maxCalls)
optimizeDepth(maxCalls) == Call("optimizeDepth", <<"depth">>, maxCalls)
optimizeQubitMapping(maxCalls) == Call("optimizeQubitMapping", <<"remap">>, maxCalls)

Running(name) == status = "ok" /\ pc # <<>> /\ Head(pc) = name

Ran(name) ==
    /\ pass' = name
    /\ before' = gates
    /\ pc' = Tail(pc)
    /\ UNCHANGED <<op, prevOp, input, calls>>
    /\ UNCHANGED <<intVars, extVars>>

CancellationPass ==
    /\ Running("cancel")
    /\ gates' = applyCancellationRules(gates)
    /\ Ran("cancel")
    /\ UNCHANGED <<layers, status>>

MergingPass ==
    /\ Running("merge")
    /\ gates' = applyMergingRules(gates)
    /\ Ran("merge")
    /\ UNCHANGED <<layers, status>>

(* With an empty gate list gates.size() - 1 wraps to SIZE_MAX and the    *)
(* loop body reads gates[0] and gates[1] of an empty vector: undefined   *)
(* behaviour.  The build either dies on the read or gets away with it    *)
(* and returns.                                                          *)
CommutationPass ==
    /\ Running("commute")
    /\ IF Len(gates) = 0
       THEN /\ \E outcome \in {"crashed", "ok"} : status' = outcome
            /\ gates' = gates
       ELSE /\ gates' = applyCommutationRules(gates)
            /\ status' = status
    /\ Ran("commute")
    /\ UNCHANGED layers

DepthPass ==
    /\ Running("depth")
    /\ gates' = reorderGates(gates).new_gates
    /\ layers' = reorderGates(gates).layers
    /\ Ran("depth")
    /\ UNCHANGED status

RemapPass ==
    /\ Running("remap")
    /\ gates' = remapQubits(gates)
    /\ Ran("remap")
    /\ UNCHANGED <<layers, status>>

(* The machine with at most maxGates gates added and maxCalls public    *)
(* operations called                                                    *)
NextWithin(maxGates, maxCalls) ==
    \/ \E g \in InputGates : addGate(g, maxGates)
    \/ optimize(maxCalls)
    \/ optimizeGateCount(maxCalls)
    \/ optimizeDepth(maxCalls)
    \/ optimizeQubitMapping(maxCalls)
    \/ CancellationPass
    \/ MergingPass
    \/ CommutationPass
    \/ DepthPass
    \/ RemapPass

Next == NextWithin(MaxGates, MaxCalls)

Spec == Init /\ [][Next]_vars

PairNext == NextWithin(PairGates, PairCalls)

PairSpec == Init /\ [][PairNext]_vars

(* The public operation op has returned *)
Returned(name) == op = name /\ pc = <<>> /\ status = "ok"

-----------------------------------------------------------------------------
(* The interpreter machine: a circuit is built, then a debugger session   *)
(* (DebugSpec, SessionSpec) or direct calls on a QuantumState (CacheSpec) *)
(* follow.  Every call but the building of the circuit counts in ops.     *)

(* Bookkeeping of a call: last names it, pre keeps what it found *)
Called(name, arg, maxOps) ==
    /\ ops < maxOps
    /\ ops' = ops + 1
    /\ last' = [name |-> name, arg |-> arg]
    /\ pre' = [state |-> state, state_cache |-> state_cache,
               breakpoints |-> breakpoints,
               current_gate_index |-> current_gate_index]

(* QuantumCircuit::addGate of the interpreter: no check of the qubits; the *)
(* circuit is complete before the debugger is constructed                 *)
CircuitAddGate(g, maxCircuit) ==
    /\ ops = 0
    /\ Len(circuit) < maxCircuit
    /\ circuit' = Append(circuit, g)
    /\ UNCHANGED <<state, state_cache, breakpoints, current_gate_index,
                   is_running, snapshot, thrown, last, pre, ops>>
    /\ UNCHANGED <<optVars, extVars>>

(* state.applyHadamard, applyX, applyCNOT or measure called directly *)
GateCall(g, maxOps) ==
    /\ Called("apply", g, maxOps)
    /\ state' \in applyGate(state, g)
    /\ thrown' = "none"
    /\ UNCHANGED <<circuit, state_cache, breakpoints, current_gate_index,
                   is_running, snapshot>>
    /\ UNCHANGED <<optVars, extVars>>

SaveStateCall(name, maxOps) ==
    /\ Called("saveState", name, maxOps)
    /\ state_cache' = saveStateCache(state_cache, name, state)
    /\ snapshot' = [n \in DOMAIN snapshot \cup {name} |->
                        IF n = name THEN [state |-> state, live |-> TRUE]
                        ELSE snapshot[n]]
    /\ thrown' = "none"
    /\ UNCHANGED <<circuit, state, breakpoints, current_gate_index, is_running>>
    /\ UNCHANGED <<optVars, extVars>>

LoadStateCall(name, maxOps) ==
    /\ Called("loadState", name, maxOps)
    /\ state' = loadStateResult(state_cache, name, state).state
    /\ thrown' = loadStateResult(state_cache, name, state).thrown
    /\ UNCHANGED <<circuit, state_cache, breakpoints, current_gate_index,
                   is_running, snapshot>>
    /\ UNCHANGED <<optVars, extVars>>

ClearCacheCall(maxOps) ==
    /\ Called("clearCache", 0, maxOps)
    /\ state_cache' = EmptyCache
    /\ snapshot' = [n \in DOMAIN snapshot |-> [snapshot[n] EXCEPT !.live = FALSE]]
    /\ thrown' = "none"
    /\ UNCHANGED <<circuit, state, breakpoints, current_gate_index, is_running>>
    /\ UNCHANGED <<optVars, extVars>>

AddGateBreakpointCall(gate_index, maxOps) ==
    /\ Called("addGateBreakpoint", gate_index, maxOps)
    /\ Len(breakpoints) < MaxBreakpoints
    /\ breakpoints' = Append(breakpoints, GateBreakpoint(gate_index))
    /\ thrown' = "none"
    /\ UNCHANGED <<circuit, state, state_cache, current_gate_index,
                   is_running, snapshot>>
    /\ UNCHANGED <<optVars, extVars>>

RemoveBreakpointCall(index, maxOps) ==
    /\ Called("removeBreakpoint", index, maxOps)
    /\ breakpoints' = removeBreakpoint(breakpoints, index)
    /\ thrown' = "none"
    /\ UNCHANGED <<circuit, state, state_cache, current_gate_index,
                   is_running, snapshot>>
    /\ UNCHANGED <<optVars, extVars>>

ClearBreakpointsCall(maxOps) ==
    /\ Called("clearBreakpoints", 0, maxOps)
    /\ breakpoints' = <<>>
    /\ thrown' = "none"
    /\ UNCHANGED <<circuit, state, state_cache, current_gate_index,
                   is_running, snapshot>>
    /\ UNCHANGED <<optVars, extVars>>

Debugger == [state |-> state, index |-> current_gate_index, is_running |-> is_running]

StepCall(maxOps) ==
    /\ Called("step", 0, maxOps)
    /\ \E d \in step(circuit, Debugger) :
            /\ state' = d.state
            /\ current_gate_index' = d.index
    /\ thrown' = "none"
    /\ UNCHANGED <<circuit, state_cache, breakpoints, is_running, snapshot>>
    /\ UNCHANGED <<optVars, extVars>>

ContinueCall(maxOps) ==
    /\ Called("continueExecution", 0, maxOps)
    /\ \E d \in continueLoop(circuit, breakpoints, [Debugger EXCEPT !.is_running = TRUE]) :
            /\ state' = d.state
            /\ current_gate_index' = d.index
            /\ is_running' = d.is_running
    /\ thrown' = "none"
    /\ UNCHANGED <<circuit, state_cache, breakpoints, snapshot>>
    /\ UNCHANGED <<optVars, extVars>>

ResetCall(maxOps) ==
    /\ Called("reset", 0, maxOps)
    /\ current_gate_index' = 0
    /\ state' = resetState(state)
    /\ state_cache' = resetCache(state_cache)
    /\ thrown' = "none"
    /\ UNCHANGED <<circuit, breakpoints, is_running, snapshot>>
    /\ UNCHANGED <<optVars, extVars>>

(* Direct use of one QuantumState *)
CacheNext ==
    \/ \E g \in CircuitGates : GateCall(g, MaxStateOps)
    \/ \E name \in Labels : SaveStateCall(name, MaxStateOps)
    \/ \E name \in Labels : LoadStateCall(name, MaxStateOps)
    \/ ClearCacheCall(MaxStateOps)

CacheSpec == Init /\ [][CacheNext]_vars

(* A debugger session on a circuit of at most maxCircuit gates *)
DebugNextWithin(maxCircuit, maxOps) ==
    \/ \E g \in CircuitGates : CircuitAddGate(g, maxCircuit)
    \/ \E i \in -1 .. (maxCircuit + 1) : AddGateBreakpointCall(i, maxOps)
    \/ \E i \in -1 .. MaxBreakpoints : RemoveBreakpointCall(i, maxOps)
    \/ ClearBreakpointsCall(maxOps)
    \/ StepCall(maxOps)
    \/ ContinueCall(maxOps)
    \/ ResetCall(maxOps)
    \/ \E name \in Labels : SaveStateCall(name, maxOps)
    \/ \E name \in Labels : LoadStateCall(name, maxOps)
    \/ ClearCacheCall(maxOps)

DebugNext == DebugNextWithin(MaxCircuit, MaxOps)

DebugSpec == Init /\ [][DebugNext]_vars

SessionNext == DebugNextWithin(SessionCircuit, SessionOps)

SessionSpec == Init /\ [][SessionNext]_vars

-----------------------------------------------------------------------------
(* Gates applied to the two three-qubit engines *)

(* One call on one engine: v is the vector the call leaves in it *)
ThreeCalled(engine, name, qubits, v) ==
    [state |-> IF engine = "QuantumState" THEN v ELSE three.state,
     state_vector_ |-> IF engine = "QuantumSimulator" THEN v
                       ELSE three.state_vector_,
     last |-> [engine |-> engine, name |-> name, qubits |-> qubits],
     pre |-> IF engine = "QuantumState" THEN three.state
             ELSE three.state_vector_]

(* QuantumState::applyX, applyToffoli, applyFredkin *)
ThreeApplyX(qubit) ==
    /\ three' = ThreeCalled("QuantumState", "X", <<qubit>>,
                            threeX(three.state, qubit))
    /\ UNCHANGED <<optVars, intVars, lower, regs, backend, twin>>

ToffoliCall(t) ==
    /\ three' = ThreeCalled("QuantumState", "Toffoli", t,
                            applyToffoli(three.state, t[1], t[2], t[3]))
    /\ UNCHANGED <<optVars, intVars, lower, regs, backend, twin>>

FredkinCall(t) ==
    /\ three' = ThreeCalled("QuantumState", "Fredkin", t,
                            applyFredkin(three.state, t[1], t[2], t[3]))
    /\ UNCHANGED <<optVars, intVars, lower, regs, backend, twin>>

(* QuantumSimulator::applyGate on an X, a CCX or a CSWAP gate *)
SimulateX(qubit) ==
    /\ three' = ThreeCalled("QuantumSimulator", "X", <<qubit>>,
                            threeX(three.state_vector_, qubit))
    /\ UNCHANGED <<optVars, intVars, lower, regs, backend, twin>>

SimulateCCX(t) ==
    /\ three' = ThreeCalled("QuantumSimulator", "CCX", t,
                            simulateThreeQubitGate(three.state_vector_, t))
    /\ UNCHANGED <<optVars, intVars, lower, regs, backend, twin>>

SimulateCSWAP(t) ==
    /\ three' = ThreeCalled("QuantumSimulator", "CSWAP", t,
                            simulateThreeQubitGate(three.state_vector_, t))
    /\ UNCHANGED <<optVars, intVars, lower, regs, backend, twin>>

ThreeNext ==
    \/ \E q \in 0 .. (ThreeQubits - 1) : ThreeApplyX(q)
    \/ \E t \in Triples : ToffoliCall(t)
    \/ \E t \in Triples : FredkinCall(t)
    \/ \E q \in 0 .. (ThreeQubits - 1) : SimulateX(q)
    \/ \E t \in Triples : SimulateCCX(t)
    \/ \E t \in Triples : SimulateCSWAP(t)

ThreeSpec == Init /\ [][ThreeNext]_vars

-----------------------------------------------------------------------------
(* Lowering a program: visit(ProgramNode) visits the statements in order   *)
(* and an exception thrown by one visit ends the walk                      *)

Visiting ==
    /\ lower.thrown = "none"
    /\ Len(lower.program) < MaxStatements

Visited(stmt, c, t) ==
    [circuit_ |-> c, program |-> Append(lower.program, stmt), thrown |-> t,
     pre |-> lower.circuit_]

VisitQubitDeclaration(n) ==
    /\ Visiting
    /\ lower' = Visited([kind |-> "qreg", size |-> n],
                        visitQubitDeclaration(lower.circuit_, n), "none")
    /\ UNCHANGED <<optVars, intVars, three, regs, backend, twin>>

VisitClassicalBitDeclaration(n) ==
    /\ Visiting
    /\ lower' = Visited([kind |-> "creg", size |-> n],
                        visitClassicalBitDeclaration(lower.circuit_, n), "none")
    /\ UNCHANGED <<optVars, intVars, three, regs, backend, twin>>

VisitGate(g) ==
    /\ Visiting
    /\ lower' = Visited([kind |-> "gate", gate |-> g],
                        addGateResult(lower.circuit_, g).circuit,
                        addGateResult(lower.circuit_, g).thrown)
    /\ UNCHANGED <<optVars, intVars, three, regs, backend, twin>>

VisitMeasure(qubit, classical_bit) ==
    /\ Visiting
    /\ lower' = Visited([kind |-> "measure", qubit |-> qubit,
                         classical_bit |-> classical_bit],
                        addMeasurementResult(lower.circuit_, qubit, classical_bit).circuit,
                        addMeasurementResult(lower.circuit_, qubit, classical_bit).thrown)
    /\ UNCHANGED <<optVars, intVars, three, regs, backend, twin>>

(* The visitor at work, and a circuit of the interpreter being built *)
LowerNext ==
    \/ \E n \in 1 .. MaxRegister : VisitQubitDeclaration(n)
    \/ \E n \in 1 .. MaxRegister : VisitClassicalBitDeclaration(n)
    \/ \E g \in LowerGates : VisitGate(g)
    \/ \E q \in LowerIndices, c \in LowerIndices : VisitMeasure(q, c)
    \/ \E g \in UncheckedGates : CircuitAddGate(g, LowerCircuit)

LowerSpec == Init /\ [][LowerNext]_vars

-----------------------------------------------------------------------------
(* The Interpreter visiting register declarations; an exception ends       *)
(* visitProgram                                                            *)

Declared(kind, name, size, r) ==
    [qregisters |-> r.qregisters, cregisters |-> r.cregisters,
     thrown |-> r.thrown,
     last |-> [kind |-> kind, name |-> name, size |-> size],
     pre |-> [qregisters |-> regs.qregisters, cregisters |-> regs.cregisters]]

QRegDecl(name, size) ==
    /\ regs.thrown = "none"
    /\ regs' = Declared("qreg", name, size, visitQRegDecl(regs, name, size))
    /\ UNCHANGED <<optVars, intVars, three, lower, backend, twin>>

CRegDecl(name, size) ==
    /\ regs.thrown = "none"
    /\ regs' = Declared("creg", name, size, visitCRegDecl(regs, name, size))
    /\ UNCHANGED <<optVars, intVars, three, lower, backend, twin>>

RegisterNext ==
    \/ \E name \in RegisterNames, size \in 1 .. MaxRegister : QRegDecl(name, size)
    \/ \E name \in RegisterNames, size \in 1 .. MaxRegister : CRegDecl(name, size)

RegisterSpec == Init /\ [][RegisterNext]_vars

-----------------------------------------------------------------------------
(* A LocalBackend given a circuit of the interpreter: configure, execute   *)
(* on the caller's state, measure                                          *)

ConfigureCall(max_qubits) ==
    /\ Called("configure", max_qubits, BackendOps)
    /\ backend' = [backend EXCEPT !.max_qubits = max_qubits]
    /\ thrown' = "none"
    /\ UNCHANGED <<circuit, state, state_cache, breakpoints, current_gate_index,
                   is_running, snapshot>>
    /\ UNCHANGED <<optVars, three, lower, regs, twin>>

BackendExecuteCall ==
    /\ Called("execute", 0, BackendOps)
    /\ IF NumQubits > backend.max_qubits
       THEN /\ backend' = [backend EXCEPT
                    !.last_error = "Circuit requires more qubits than available"]
            /\ thrown' = "Circuit requires more qubits than available"
            /\ state' = state
       ELSE /\ state' \in execute(circuit, state)
            /\ thrown' = "none"
            /\ backend' = backend
    /\ UNCHANGED <<circuit, state_cache, breakpoints, current_gate_index,
                   is_running, snapshot>>
    /\ UNCHANGED <<optVars, three, lower, regs, twin>>

BackendMeasureCall(shots) ==
    /\ Called("measure", shots, BackendOps)
    /\ IF shots <= 0
       THEN /\ backend' = [backend EXCEPT
                    !.last_error = "Number of shots must be positive",
                    !.shots = shots, !.results = <<>>, !.returns = {},
                    !.allocated = FALSE]
            /\ thrown' = "Number of shots must be positive"
       ELSE /\ \E results \in backendMeasure(circuit, shots) :
                    backend' = [backend EXCEPT
                        !.shots = shots, !.results = results,
                        !.returns = backendMeasure(circuit, shots),
                        !.allocated = TRUE]
            /\ thrown' = "none"
    /\ UNCHANGED <<circuit, state, state_cache, breakpoints, current_gate_index,
                   is_running, snapshot>>
    /\ UNCHANGED <<optVars, three, lower, regs, twin>>

BackendNext ==
    \/ \E g \in CircuitGates : CircuitAddGate(g, BackendCircuit)
    \/ \E m \in 0 .. (NumQubits + 1) : ConfigureCall(m)
    \/ BackendExecuteCall
    \/ \E shots \in 0 .. MaxShots : BackendMeasureCall(shots)

BackendSpec == Init /\ [][BackendNext]_vars

-----------------------------------------------------------------------------
(* The same call made on both objects *)

TwinApply(g) ==
    /\ Called("apply", g, TwinOps)
    /\ IF g.type = "MEASURE"
       THEN \E r1 \in measureResults(state, g.qubits[1]),
               r2 \in measureResults(twin.state, g.qubits[1]) :
                /\ state' = collapse(state, g.qubits[1], r1)
                /\ twin' = [state |-> collapse(twin.state, g.qubits[1], r2),
                            first |-> r1, second |-> r2]
       ELSE /\ state' \in applyGate(state, g)
            /\ \E w \in applyGate(twin.state, g) : twin' = [twin EXCEPT !.state = w]
    /\ thrown' = "none"
    /\ UNCHANGED <<circuit, state_cache, breakpoints, current_gate_index,
                   is_running, snapshot>>
    /\ UNCHANGED <<optVars, three, lower, regs, backend>>

TwinNext == \E g \in CircuitGates : TwinApply(g)

TwinSpec == Init /\ [][TwinNext]_vars

-----------------------------------------------------------------------------
(* C1 *)

C1_PermutationCircuit(gs) ==
    \A k \in 1 .. Len(gs) : gs[k].type \in {"X", "CNOT"}

(* C1: when optimize has returned on a circuit built only from X and     *)
(* CNOT, the optimized circuit maps every basis state to the same basis  *)
(* state as the circuit it was called on.                                *)
C1_OptimizePreservesBasisAction ==
    (Returned("optimize") /\ C1_PermutationCircuit(input))
        => \A b \in BasisStates : simulate(gates, b) = simulate(input, b)

-----------------------------------------------------------------------------
(* C2, C3 *)

(* The cancelling kinds the specification lists, in either order *)
C3_Pairs ==
    {<<"X", "X">>, <<"Y", "Y">>, <<"Z", "Z">>, <<"H", "H">>,
     <<"S", "S_DAG">>, <<"S_DAG", "S">>, <<"T", "T_DAG">>, <<"T_DAG", "T">>,
     <<"CNOT", "CNOT">>, <<"CZ", "CZ">>, <<"SWAP", "SWAP">>}

(* Positions i < j hold a pair the specification allows to be removed:   *)
(* equal qubit lists, cancelling kinds, and no gate between them on any  *)
(* of their qubits                                                       *)
C2_RemovablePair(gs, i, j) ==
    /\ i < j
    /\ gs[i].qubits = gs[j].qubits
    /\ <<gs[i].type, gs[j].type>> \in C3_Pairs
    /\ \A k \in (i + 1) .. (j - 1) :
            QubitSet(gs[k]) \cap QubitSet(gs[i]) = {}

C2_NoRemovablePair(gs) ==
    \A i \in 1 .. Len(gs) : \A j \in 1 .. Len(gs) : ~C2_RemovablePair(gs, i, j)

(* C2: the cancellation pass removes no pair that is separated by a gate *)
(* on a shared qubit: a gate list without any removable pair leaves the  *)
(* pass as it entered it.                                                *)
C2_SeparatedPairsStay ==
    (pass = "cancel" /\ C2_NoRemovablePair(before)) => gates = before

(* C3: a circuit of two gates with equal qubit lists is emptied by the   *)
(* cancellation pass exactly when the two kinds are one of the listed    *)
(* cancelling pairs.                                                     *)
C3_CancelsExactlyListedPairs ==
    (pass = "cancel" /\ Len(before) = 2 /\ before[1].qubits = before[2].qubits)
        => (gates = <<>> <=> <<before[1].type, before[2].type>> \in C3_Pairs)

-----------------------------------------------------------------------------
(* C4, C5 *)

C4_SelfInverse == {"X", "Y", "Z", "H"}

(* gs is a non-empty run of consecutive pairs of one self-inverse gate each, *)
(* all on one qubit                                                          *)
C4_PairsOnly(gs) ==
    /\ Len(gs) > 0
    /\ Len(gs) % 2 = 0
    /\ \A k \in 1 .. Len(gs) :
            /\ gs[k].type \in C4_SelfInverse
            /\ gs[k].qubits = gs[1].qubits
            /\ (k % 2 = 1) => gs[k] = gs[k + 1]

(* C4: optimize called on a circuit of consecutive identical self-inverse *)
(* pairs does not end abnormally and returns the empty circuit.           *)
C4_PairsOptimizeToEmpty ==
    (op = "optimize" /\ C4_PairsOnly(input))
        => /\ status = "ok"
           /\ (pc = <<>> => gates = <<>>)

(* C5: a second optimize directly after an optimize returns the gate     *)
(* list it was given.                                                    *)
C5_OptimizeIdempotent ==
    (Returned("optimize") /\ prevOp = "optimize") => gates = input

-----------------------------------------------------------------------------
(* C6 *)

C6_IsMeasureOn(g, q) == g.type = "MEASURE" /\ q \in QubitSet(g)

(* Number of measurements of q before position i: the gates on q with    *)
(* the same number lie between the same two measurements of q            *)
C6_Segment(gs, q, i) ==
    Cardinality({m \in 1 .. (i - 1) : C6_IsMeasureOn(gs[m], q)})

C6_InSegment(gs, q, k, t) ==
    {i \in 1 .. Len(gs) :
        /\ gs[i].type = t
        /\ q \in QubitSet(gs[i])
        /\ C6_Segment(gs, q, i) = k}

RECURSIVE C6_AngleSum(_, _)
C6_AngleSum(gs, I) ==
    IF I = {} THEN 0
    ELSE LET i == Least(I) IN gs[i].params[1] + C6_AngleSum(gs, I \ {i})

(* C6: a public operation that has returned moved nothing across a       *)
(* measurement and cancelled or merged nothing across one.  Then, for    *)
(* every qubit q, the measurements of q are all still there, and between *)
(* the same two measurements of q the number of gates of each            *)
(* self-inverse kind has kept its parity (gates leave in pairs) and the  *)
(* RX angles have kept their sum (rotations merge among themselves).     *)
C6_NothingCrossesMeasurement ==
    (op # "none" /\ pc = <<>> /\ status = "ok")
        => \A q \in Qubits : \A k \in 0 .. MaxGates :
              /\ Cardinality(C6_InSegment(gates, q, k, "MEASURE"))
                    = Cardinality(C6_InSegment(input, q, k, "MEASURE"))
              /\ \A t \in {"X", "Z", "H"} :
                    Cardinality(C6_InSegment(gates, q, k, t)) % 2
                        = Cardinality(C6_InSegment(input, q, k, t)) % 2
              /\ C6_AngleSum(gates, C6_InSegment(gates, q, k, "RX"))
                    = C6_AngleSum(input, C6_InSegment(input, q, k, "RX"))

-----------------------------------------------------------------------------
(* C7, C8 *)

(* Positions i < j hold two rotations of one axis on one qubit with no   *)
(* gate on that qubit between them                                       *)
C7_AdjacentRotations(gs, i, j) ==
    /\ i < j
    /\ gs[i].type \in {"RX", "RY", "RZ", "P"}
    /\ gs[i].type = gs[j].type
    /\ gs[i].qubits = gs[j].qubits
    /\ \A k \in (i + 1) .. (j - 1) :
            QubitSet(gs[k]) \cap QubitSet(gs[i]) = {}

C7_NoAdjacentRotations(gs) ==
    \A i \in 1 .. Len(gs) : \A j \in 1 .. Len(gs) : ~C7_AdjacentRotations(gs, i, j)

(* C7: the merging pass merges two rotations only when they are adjacent *)
(* on their qubit: a gate list without such a pair leaves the pass as it *)
(* entered it.                                                           *)
C7_MergesOnlyAdjacent ==
    (pass = "merge" /\ C7_NoAdjacentRotations(before)) => gates = before

C8_FullTurn(a) == a % (2 * Pi) = 0

C8_Axes == {"RX", "RY", "RZ", "P"}

(* Positions of the rotations of axis t on qubit q *)
C8_Rotations(gs, t, q) ==
    {i \in 1 .. Len(gs) : gs[i].type = t /\ gs[i].qubits = <<q>>}

C8_Total(gs, t, q) == C6_AngleSum(gs, C8_Rotations(gs, t, q))

(* The merging pass has run on a gate list with two or more rotations of *)
(* axis t on qubit q whose angles add up to a multiple of 2*pi           *)
C8_MergedToFullTurn(t, q) ==
    /\ pass = "merge"
    /\ Cardinality(C8_Rotations(before, t, q)) >= 2
    /\ C8_FullTurn(C8_Total(before, t, q))

-----------------------------------------------------------------------------
(* C9 *)

(* C9: a pass that has just returned has reached a fixed point: running  *)
(* it again on its output changes nothing.                               *)
C9_PassesReachFixedPoint ==
    /\ pass = "cancel" => applyCancellationRules(gates) = gates
    /\ pass = "merge" => applyMergingRules(gates) = gates
    /\ (pass = "commute" /\ status = "ok" /\ Len(gates) > 0)
            => applyCommutationRules(gates) = gates

-----------------------------------------------------------------------------
(* C10 *)

Max(S) == CHOOSE j \in S : \A k \in S : k <= j

(* The layer the specification gives gate i: one more than the highest   *)
(* layer of an earlier gate sharing a qubit with it, the first layer     *)
(* when there is none                                                    *)
RECURSIVE C10_Layer(_, _)
C10_Layer(gs, i) ==
    LET E == {k \in 1 .. (i - 1) : QubitSet(gs[k]) \cap QubitSet(gs[i]) # {}}
    IN  IF E = {} THEN 1 ELSE 1 + Max({C10_Layer(gs, k) : k \in E})

(* Layer-major order, original order inside a layer *)
RECURSIVE C10_Emit(_, _)
C10_Emit(gs, l) ==
    IF l > Len(gs) THEN <<>>
    ELSE LET idx == [i \in 1 .. Len(gs) |-> i]
             Here(i) == C10_Layer(gs, i) = l
             sel == SelectSeq(idx, Here)
         IN  [k \in 1 .. Len(sel) |-> gs[sel[k]]] \o C10_Emit(gs, l + 1)

(* C10: after depth layering no two gates of one layer share a qubit,    *)
(* and the gates come out layer by layer, each gate in the earliest      *)
(* layer after every earlier gate sharing a qubit with it.               *)
C10_LayeredOutput ==
    pass = "depth"
        => /\ \A l \in 1 .. Len(layers) :
                \A a \in 1 .. Len(layers[l]) : \A b \in 1 .. Len(layers[l]) :
                    a # b => QubitSet(before[layers[l][a]])
                                \cap QubitSet(before[layers[l][b]]) = {}
           /\ gates = C10_Emit(before, 1)

-----------------------------------------------------------------------------
(* C11: after the qubit-remapping pass the qubit list of every gate is the *)
(* image of its qubit list before the pass under one permutation of the   *)
(* qubits, and that permutation gives a qubit touched by more gates a     *)
(* smaller index (the most used qubit becomes qubit 0)                    *)

C11_Usage(gs, q) == Cardinality({k \in 1 .. Len(gs) : q \in QubitSet(gs[k])})

C11_ByUsage(gs) ==
    {f \in [Qubits -> Qubits] :
        /\ \A p, q \in Qubits : p # q => f[p] # f[q]
        /\ \A p, q \in Qubits : C11_Usage(gs, p) > C11_Usage(gs, q) => f[p] < f[q]}

C11_Image(gs, f) ==
    [k \in 1 .. Len(gs) |->
        [gs[k] EXCEPT !.qubits = [j \in 1 .. Len(gs[k].qubits) |-> f[gs[k].qubits[j]]]]]

C11_RemapPermutesByUsage ==
    pass = "remap" => \E f \in C11_ByUsage(before) : gates = C11_Image(before, f)

-----------------------------------------------------------------------------
(* C12: a circuit without gates is a no-op: optimize called on it returns *)
(* without error with the empty gate list, and a debugger step or         *)
(* continue over it leaves the amplitudes as they were                    *)

C12_EmptyCircuitIsNoOp ==
    /\ (op = "optimize" /\ input = <<>>) => (status = "ok" /\ gates = <<>>)
    /\ (last.name \in {"step", "continueExecution"} /\ circuit = <<>>) =>
            state = pre.state

-----------------------------------------------------------------------------
(* C13: a step taken at an index k below the gate count applies the gate  *)
(* at k, and only that gate, to the amplitudes and moves the index to     *)
(* k + 1, whatever the breakpoints are                                    *)

C13_StepAppliesOneGate ==
    (last.name = "step" /\ pre.current_gate_index < Len(circuit)) =>
        /\ current_gate_index = pre.current_gate_index + 1
        /\ state \in applyGate(pre.state, circuit[pre.current_gate_index + 1])

-----------------------------------------------------------------------------
(* C14: continue called at index 0 with one gate breakpoint registered at *)
(* i, 1 <= i <= gate count, stops at index i with the gates 0..i-1        *)
(* applied once each and gate i and the later gates not applied           *)

C14_ContinueStopsAtBreakpoint ==
    \A i \in 1 .. Len(circuit) :
        (/\ last.name = "continueExecution"
         /\ pre.current_gate_index = 0
         /\ pre.breakpoints = <<GateBreakpoint(i)>>) =>
            /\ current_gate_index = i
            /\ state \in execute(SubSeq(circuit, 1, i), pre.state)

-----------------------------------------------------------------------------
(* C15: reset sets the index to 0 and the amplitudes to |0...0> of the    *)
(* same width, so that any number of steps after it reaches the states    *)
(* and indexes that the same steps reach in a debugger just constructed   *)
(* on a new state                                                         *)

RECURSIVE C15_Steps(_, _)
C15_Steps(k, c) ==
    IF k = 0 THEN {<<c.state, c.index>>}
    ELSE UNION {C15_Steps(k - 1, d) : d \in step(circuit, c)}

C15_Fresh == [state |-> QuantumState, index |-> 0, is_running |-> FALSE]

C15_ResetReplays ==
    last.name = "reset" =>
        /\ current_gate_index = 0
        /\ state = QuantumState
        /\ \A k \in 0 .. Len(circuit) : C15_Steps(k, Debugger) = C15_Steps(k, C15_Fresh)

C15_Witness ==
    /\ last.name = "reset"
    /\ pre.current_gate_index > 0
    /\ pre.state # QuantumState

-----------------------------------------------------------------------------
(* C16: removeBreakpoint with an index outside the registered breakpoints *)
(* and addGateBreakpoint with a gate index outside the circuit end with   *)
(* an error and leave the breakpoint list as it was                       *)

C16_InvalidIndexReported ==
    /\ (last.name = "removeBreakpoint"
            /\ (last.arg < 0 \/ last.arg >= Len(pre.breakpoints))) =>
            (thrown # "none" /\ breakpoints = pre.breakpoints)
    /\ (last.name = "addGateBreakpoint"
            /\ (last.arg < 0 \/ last.arg > Len(circuit))) =>
            (thrown # "none" /\ breakpoints = pre.breakpoints)

-----------------------------------------------------------------------------
(* C17: a loadState that succeeds leaves the live amplitudes equal to the *)
(* amplitudes at the last saveState under that label, whatever gates and  *)
(* measurements came between, and no such mutation changes a cached       *)
(* snapshot, so every later load of the label gives them again            *)

C17_SnapshotRoundTrip ==
    /\ (last.name = "loadState" /\ thrown = "none") =>
            state = snapshot[last.arg].state
    /\ \A n \in DOMAIN state_cache : state_cache[n] = snapshot[n].state

C17_Witness ==
    /\ last.name = "loadState"
    /\ thrown = "none"
    /\ pre.state # state
    /\ state # QuantumState

-----------------------------------------------------------------------------
(* C18: the cache never holds more than the configured maximum number of  *)
(* entries                                                                *)

C18_CacheBounded == Cardinality(DOMAIN state_cache) <= max_cache_size

-----------------------------------------------------------------------------
(* C19: loadState of a label that is not in the cache, never saved or     *)
(* saved before the last clearCache, throws and leaves the live           *)
(* amplitudes and the cache as they were                                  *)

C19_MissingLabelThrows ==
    (last.name = "loadState" /\ last.arg \notin DOMAIN pre.state_cache) =>
        /\ thrown = "State not found in cache"
        /\ state = pre.state
        /\ state_cache = pre.state_cache

C19_Witness ==
    /\ last.name = "loadState"
    /\ last.arg \notin DOMAIN pre.state_cache
    /\ last.arg \in DOMAIN snapshot
    /\ state # QuantumState

-----------------------------------------------------------------------------
(* C20: a snapshot saved under a label stays in the cache with the        *)
(* amplitudes it was saved with until clearCache or another saveState     *)
(* under that label; no debugger step, continue or reset removes it       *)

C20_OnlyCacheCallsDropSnapshots ==
    \A n \in DOMAIN snapshot :
        snapshot[n].live =>
            (n \in DOMAIN state_cache /\ state_cache[n] = snapshot[n].state)

-----------------------------------------------------------------------------
(* C30: the depth-layering pass returns (at most one sweep per gate), and *)
(* its output is a permutation of its input with no null entry in which,  *)
(* for every qubit, the gates on that qubit keep their relative order     *)

C30_Orders(n) == {p \in [1 .. n -> 1 .. n] : \A a, b \in 1 .. n : a # b => p[a] # p[b]}

C30_DepthKeepsQubitOrder ==
    pass = "depth"
        => /\ Len(layers) <= Len(before)
           /\ \A k \in 1 .. Len(gates) : gates[k] # nullptr
           /\ Len(gates) = Len(before)
           /\ \E p \in C30_Orders(Len(before)) :
                /\ \A k \in 1 .. Len(before) : gates[k] = before[p[k]]
                /\ \A a, b \in 1 .. Len(before) :
                        (a < b /\ QubitSet(gates[a]) \cap QubitSet(gates[b]) # {})
                            => p[a] < p[b]

(* The pass has run on two different gates that share a qubit *)
C30_Witness ==
    /\ pass = "depth"
    /\ Len(before) >= 2
    /\ before[1] # before[2]
    /\ QubitSet(before[1]) \cap QubitSet(before[2]) # {}

-----------------------------------------------------------------------------
(* C22: CNOT(control, target) applied to the basis state i gives the basis *)
(* state i with the target bit flipped when the control bit of i is 1, and *)
(* i itself when it is 0, whichever of the two qubits has the larger number *)

C22_Ket(i) == Amplitudes([j \in BasisStates |-> IF j = i THEN 1 ELSE 0], 0)

C22_CNOTFlipsTargetUnderControl ==
    (last.name = "apply" /\ last.arg.type = "CNOT")
        => \A i \in BasisStates :
                pre.state = C22_Ket(i) => state = C22_Ket(applyBasis(last.arg, i))

-----------------------------------------------------------------------------
(* C23: Toffoli exchanges exactly the basis states whose two control bits  *)
(* are 1 (the target bit flipped), Fredkin exactly those whose control bit *)
(* is 1 and whose two target bits differ (the two target bits exchanged);  *)
(* every other amplitude stays where it was                                *)

C23_Toffoli(i, t) ==
    IF Bit(i, t[1]) = 1 /\ Bit(i, t[2]) = 1 THEN FlipBit(i, t[3]) ELSE i

C23_Fredkin(i, t) ==
    IF Bit(i, t[1]) = 1 /\ Bit(i, t[2]) # Bit(i, t[3])
    THEN FlipBit(FlipBit(i, t[2]), t[3])
    ELSE i

C23_ThreeQubitGatesPermuteBasis ==
    LET v == IF three.last.engine = "QuantumState" THEN three.state
             ELSE three.state_vector_
    IN  /\ three.last.name \in {"Toffoli", "CCX"}
            => \A i \in ThreeBasis : v[C23_Toffoli(i, three.last.qubits)] = three.pre[i]
        /\ three.last.name \in {"Fredkin", "CSWAP"}
            => \A i \in ThreeBasis : v[C23_Fredkin(i, three.last.qubits)] = three.pre[i]

-----------------------------------------------------------------------------
(* C21: every gate of a circuit names qubits below the circuit's number of *)
(* qubits and every measurement a classical bit below its number of        *)
(* classical bits, in the compiler's circuit and in the interpreter's; an  *)
(* insertion that names an index out of range throws and leaves the gate   *)
(* and measurement lists as they were                                      *)

C21_OutOfRange(stmt, c) ==
    \/ stmt.kind = "gate" /\ \E q \in QubitSet(stmt.gate) : q >= c.num_qubits
    \/ stmt.kind = "measure"
            /\ (stmt.qubit >= c.num_qubits \/ stmt.classical_bit >= c.num_classical_bits)

C21_IndicesInRange ==
    /\ \A k \in 1 .. Len(lower.circuit_.gates) :
            \A q \in QubitSet(lower.circuit_.gates[k]) : q < lower.circuit_.num_qubits
    /\ \A k \in 1 .. Len(lower.circuit_.measurements) :
            /\ lower.circuit_.measurements[k][1] < lower.circuit_.num_qubits
            /\ lower.circuit_.measurements[k][2] < lower.circuit_.num_classical_bits
    /\ (lower.program # <<>>
            /\ C21_OutOfRange(lower.program[Len(lower.program)], lower.pre))
            => (lower.thrown # "none" /\ lower.circuit_ = lower.pre)
    /\ \A k \in 1 .. Len(circuit) :
            \A j \in 1 .. Len(circuit[k].qubits) : circuit[k].qubits[j] < NumQubits

-----------------------------------------------------------------------------
(* C26: while lowering goes on, the circuit's number of qubits is the sum  *)
(* of the sizes of the quantum registers declared so far and its number of *)
(* classical bits the sum of the sizes of the classical registers          *)

RECURSIVE C26_Total(_, _)
C26_Total(program, kind) ==
    IF program = <<>> THEN 0
    ELSE (IF Head(program).kind = kind THEN Head(program).size ELSE 0)
            + C26_Total(Tail(program), kind)

C26_RegisterSizesAdd ==
    lower.thrown = "none"
        => /\ lower.circuit_.num_qubits = C26_Total(lower.program, "qreg")
           /\ lower.circuit_.num_classical_bits = C26_Total(lower.program, "creg")

-----------------------------------------------------------------------------
(* C27: while lowering goes on, the circuit holds the gates of the gate    *)
(* statements visited so far, one each and in source order, and the        *)
(* measurements of the measure statements likewise                         *)

C27_IsGate(stmt) == stmt.kind = "gate"

C27_IsMeasure(stmt) == stmt.kind = "measure"

C27_GatesInSourceOrder ==
    lower.thrown = "none"
        => LET gs == SelectSeq(lower.program, C27_IsGate)
               ms == SelectSeq(lower.program, C27_IsMeasure)
           IN  /\ lower.circuit_.gates = [k \in 1 .. Len(gs) |-> gs[k].gate]
               /\ lower.circuit_.measurements
                    = [k \in 1 .. Len(ms) |-> <<ms[k].qubit, ms[k].classical_bit>>]

-----------------------------------------------------------------------------
(* C25: a declaration, quantum or classical, of a name that a register of  *)
(* either kind already has throws and leaves both register tables as they  *)
(* were                                                                    *)

C25_OneNamespace ==
    (regs.last.kind # "none"
        /\ regs.last.name \in DOMAIN regs.pre.qregisters \cup DOMAIN regs.pre.cregisters)
        => /\ regs.thrown # "none"
           /\ regs.qregisters = regs.pre.qregisters
           /\ regs.cregisters = regs.pre.cregisters

-----------------------------------------------------------------------------
(* C24: execute and measure on a circuit of more qubits than the backend's *)
(* limit throw, leave the message in last_error, leave the caller's state  *)
(* alone and construct no simulation state; on a circuit within the limit  *)
(* they go ahead                                                           *)

C24_OverLimitRefused ==
    last.name \in {"execute", "measure"}
        => IF NumQubits > backend.max_qubits
           THEN /\ thrown # "none"
                /\ backend.last_error = thrown
                /\ state = pre.state
                /\ (last.name = "measure" => ~backend.allocated)
           ELSE (last.name = "execute" \/ last.arg > 0) => thrown = "none"

-----------------------------------------------------------------------------
(* C29: a measure of N shots returns N results, and every shot measures    *)
(* the state the circuit produced: whatever basis states that state gives  *)
(* a non-zero amplitude, every sequence of N of them can be returned       *)

C29_Support(v) == {i \in BasisStates : v.amp[i] # 0}

C29_ShotsAreIndependent ==
    (last.name = "measure" /\ thrown = "none")
        => /\ Len(backend.results) = backend.shots
           /\ \A v \in execute(circuit, QuantumState) :
                ~v.nan => \A r \in [1 .. backend.shots -> C29_Support(v)] :
                            r \in backend.returns

-----------------------------------------------------------------------------
(* C28: two engines constructed alike and given the same sequence of calls *)
(* return the same measurement outcomes and hold the same amplitudes (as   *)
(* long as neither has been zeroed into NaN by a draw of exactly 0.0)      *)

C28_TwinsAgree ==
    (~state.nan /\ ~twin.state.nan)
        => /\ twin.state = state
           /\ twin.first = twin.second

====
